---- MODULE Spec2Model ----
(***************************************************************************)
(* Model of annotate.py: the per-image annotation loop (annotate_image and *)
(* its mouse callback on_mouse), the CSV reader and writer, and the driver *)
(* main with its helper annotate_and_save.                                 *)
(*                                                                         *)
(* Text (file contents, file names, command-line words) is a sequence of   *)
(* one-character strings, so that formatting and parsing are computed.     *)
(***************************************************************************)
EXTENDS Integers, Sequences, FiniteSets, TLC

VARIABLES
    pc,             \* position of the single thread of control
    saved,          \* annotate_image: list of committed circles
    center,         \* annotate_image: centre of the circle being drawn
    drawing,        \* annotate_image: a circle is being drawn
    preview_radius, \* annotate_image: radius of the live preview
    quit_all,       \* annotate_image: ESC was pressed while not drawing
    initial,        \* annotate_image: the argument `initial`
    ret,            \* value returned by annotate_image: <<circles, quit_all>>
    vis,            \* annotate_image: the frame last handed to imshow
    hist,           \* history: every delivered event with the state it met
    steps           \* number of input events delivered in this run

VARIABLES
    csvCircles,     \* read_csv/write_csv: the list handed to write_csv
    csvFile,        \* read_csv/write_csv: the file at the path
    csvLines,       \* the sample lines the file was made of at the start
    csvOut          \* read_csv/write_csv: what read_csv produced

sessVars == <<pc, saved, center, drawing, preview_radius, quit_all, initial,
              ret, vis, hist, steps>>

VARIABLES
    argv,           \* main: sys.argv[1:]
    dir_exists,     \* file system: the folder DATA_DIR exists
    listing,        \* file system: names os.listdir finds in the folder
    unreadable,     \* file system: images cv2.imread cannot decode
    fs,             \* file system: the file at each CSV name of the folder
    fs0,            \* history: fs when the program started
    images,         \* main: images
    idx,            \* main: position of the for loop in images
    img_name,       \* annotate_and_save: img_name
    trace,          \* history: loads, sessions and writes, in order, each
                    \* with the image name, writes with the quit_all returned
    persisted,      \* history: the circles held by the file at each CSV name
    left            \* history: the closure state the last session ended in

mainVars == <<argv, dir_exists, listing, unreadable, fs, fs0, images, idx,
              img_name, trace, persisted, left>>

sessVars_but_pc == <<saved, center, drawing, preview_radius, quit_all,
                     initial, ret, vis, hist, steps>>

csvVars == <<csvCircles, csvFile, csvLines, csvOut>>

vars == <<sessVars, mainVars, csvVars>>

----------------------------------------------------------------------------
(* Bounds *)

MaxCoord == 2       \* pointer coordinates range over 0..MaxCoord
MaxEvents == 4      \* input events delivered to one annotation session
MaxInitial == 2     \* circles already stored when a session starts
MaxStore == 2       \* circles in a list handed to write_csv
MaxLines == 2       \* lines of a file handed to read_csv
MaxFiles == 3       \* files in the dataset folder, CSV files included
MaxRunEvents == 3   \* input events delivered during one run of main

(* Program constants *)

KEY_ESC == 27
KEY_SPACE == 32
KEY_U == 117
KEY_MASK == 256     \* waitKey(20) & 0xFF

----------------------------------------------------------------------------
(* Inputs *)

\* pointer positions: two corners of the grid and a point of its upper edge
Points == {<<0, 0>>, <<1, MaxCoord>>, <<MaxCoord, MaxCoord>>}

\* event codes handed to the mouse callback
MouseEvents == {"LBUTTONDOWN", "MOUSEMOVE", "LBUTTONUP"}

\* values waitKey can return: -1 (no key within the wait), ESC, space, u
RawKeys == {-1, KEY_ESC, KEY_SPACE, KEY_U}

SampleCircles == <<(<<1, 1, 1>>), (<<0, 2, 0>>), (<<2, 0, 3>>)>>

RECURSIVE SeqsUpTo(_, _)
SeqsUpTo(S, n) ==
    IF n = 0 THEN {<<>>}
    ELSE LET shorter == SeqsUpTo(S, n - 1)
         IN  shorter \cup {Append(s, e) : s \in shorter, e \in S}

\* stores a session can be started with: prefixes of the sample circles
InitialStores == {SubSeq(SampleCircles, 1, k) :
                     k \in 0..(IF MaxInitial < Len(SampleCircles)
                               THEN MaxInitial ELSE Len(SampleCircles))}

----------------------------------------------------------------------------
(* annotate_image *)

\* largest s with s*s <= n
RECURSIVE isqrt_from(_, _)
isqrt_from(n, s) == IF (s + 1) * (s + 1) > n THEN s ELSE isqrt_from(n, s + 1)

\* mutant: int(math.hypot(dx, dy)), truncation instead of rounding
trunc_hypot(dx, dy) == isqrt_from(dx * dx + dy * dy, 0)

\* int(round(math.hypot(dx, dy))): the square root of an integer is never
\* exactly half-way between two integers, so round() rounds up exactly when
\* the root exceeds s + 1/2, that is when n > s*s + s
round_hypot(dx, dy) ==
    LET n == dx * dx + dy * dy
        s == isqrt_from(n, 0)
    IN  IF n > s * s + s THEN s + 1 ELSE s

\* saved.pop()
PopFirst(s) == Tail(s)
Pop(s) == SubSeq(s, 1, Len(s) - 1)

\* the closure state shared by the loop and the callback
Sess == [saved |-> saved, center |-> center, drawing |-> drawing,
         preview_radius |-> preview_radius, quit_all |-> quit_all]

\* state after lines 47-51
SessInit(init) == [saved |-> init, center |-> <<-1, -1>>, drawing |-> FALSE,
                   preview_radius |-> 0, quit_all |-> FALSE]

\* mutant: the second press commits the previewed radius
on_mouse_preview(st, event, x, y) ==
    IF event = "LBUTTONDOWN"
    THEN IF ~st.drawing
         THEN [st EXCEPT !.center = <<x, y>>, !.preview_radius = 0,
                         !.drawing = TRUE]
         ELSE [st EXCEPT !.saved = Append(st.saved,
                             <<st.center[1], st.center[2], st.preview_radius>>),
                         !.drawing = FALSE]
    ELSE IF event = "MOUSEMOVE" /\ st.drawing
         THEN [st EXCEPT !.preview_radius =
                             round_hypot(x - st.center[1], y - st.center[2])]
         ELSE st

\* mutant: a pointer move updates the previewed radius in either draw state
on_mouse_move_always(st, event, x, y) ==
    IF event = "LBUTTONDOWN"
    THEN IF ~st.drawing
         THEN [st EXCEPT !.center = <<x, y>>, !.preview_radius = 0,
                         !.drawing = TRUE]
         ELSE LET radius == round_hypot(x - st.center[1], y - st.center[2])
              IN  [st EXCEPT !.saved = Append(st.saved,
                                 <<st.center[1], st.center[2], radius>>),
                             !.drawing = FALSE]
    ELSE IF event = "MOUSEMOVE"
         THEN [st EXCEPT !.preview_radius =
                             round_hypot(x - st.center[1], y - st.center[2])]
         ELSE st

\* the mouse callback
on_mouse(st, event, x, y) ==
    IF event = "LBUTTONDOWN"
    THEN IF ~st.drawing
         THEN [st EXCEPT !.center = <<x, y>>, !.preview_radius = 0,
                         !.drawing = TRUE]
         ELSE LET radius == round_hypot(x - st.center[1], y - st.center[2])
              IN  [st EXCEPT !.saved = Append(st.saved,
                                 <<st.center[1], st.center[2], radius>>),
                             !.drawing = FALSE]
    ELSE IF event = "MOUSEMOVE" /\ st.drawing
         THEN [st EXCEPT !.preview_radius =
                             round_hypot(x - st.center[1], y - st.center[2])]
         ELSE st

\* mutant: u is honoured only while no circle is being drawn
key_step_undo_idle(st, key) ==
    IF key = KEY_ESC
    THEN IF st.drawing
         THEN [st |-> [st EXCEPT !.drawing = FALSE], brk |-> FALSE]
         ELSE [st |-> [st EXCEPT !.quit_all = TRUE], brk |-> TRUE]
    ELSE LET popped == IF key = KEY_U /\ st.saved # <<>> /\ ~st.drawing
                       THEN [st EXCEPT !.saved = Pop(st.saved)]
                       ELSE st
         IN  [st |-> popped, brk |-> (key = KEY_SPACE)]

\* mutant: ESC ends the session whether or not a circle is being drawn
key_step_esc_quits(st, key) ==
    IF key = KEY_ESC
    THEN [st |-> [st EXCEPT !.quit_all = TRUE], brk |-> TRUE]
    ELSE LET popped == IF key = KEY_U /\ st.saved # <<>>
                       THEN [st EXCEPT !.saved = Pop(st.saved)]
                       ELSE st
         IN  [st |-> popped, brk |-> (key = KEY_SPACE)]

\* mutant: space is swallowed while a circle is being drawn
key_step_space_guarded(st, key) ==
    IF key = KEY_ESC
    THEN IF st.drawing
         THEN [st |-> [st EXCEPT !.drawing = FALSE], brk |-> FALSE]
         ELSE [st |-> [st EXCEPT !.quit_all = TRUE], brk |-> TRUE]
    ELSE LET popped == IF key = KEY_U /\ st.saved # <<>>
                       THEN [st EXCEPT !.saved = Pop(st.saved)]
                       ELSE st
         IN  [st |-> popped, brk |-> (key = KEY_SPACE /\ ~st.drawing)]

\* mutant: ESC met while drawing commits the previewed circle
key_step_esc_commits(st, key) ==
    IF key = KEY_ESC
    THEN IF st.drawing
         THEN [st |-> [st EXCEPT !.saved = Append(st.saved,
                                     <<st.center[1], st.center[2],
                                       st.preview_radius>>),
                                 !.drawing = FALSE],
               brk |-> FALSE]
         ELSE [st |-> [st EXCEPT !.quit_all = TRUE], brk |-> TRUE]
    ELSE LET popped == IF key = KEY_U /\ st.saved # <<>>
                       THEN [st EXCEPT !.saved = Pop(st.saved)]
                       ELSE st
         IN  [st |-> popped, brk |-> (key = KEY_SPACE)]

\* mutant: u met while drawing also drops the circle being drawn
key_step_undo_cancels(st, key) ==
    IF key = KEY_ESC
    THEN IF st.drawing
         THEN [st |-> [st EXCEPT !.drawing = FALSE], brk |-> FALSE]
         ELSE [st |-> [st EXCEPT !.quit_all = TRUE], brk |-> TRUE]
    ELSE LET popped == IF key = KEY_U /\ st.saved # <<>>
                       THEN [st EXCEPT !.saved = Pop(st.saved),
                                       !.drawing = FALSE]
                       ELSE IF key = KEY_U THEN [st EXCEPT !.drawing = FALSE]
                       ELSE st
         IN  [st |-> popped, brk |-> (key = KEY_SPACE)]

\* lines 82-91 of the loop body, for the key returned by waitKey:
\* the state it leaves and whether the loop is left
key_step(st, key) ==
    IF key = KEY_ESC
    THEN IF st.drawing
         THEN [st |-> [st EXCEPT !.drawing = FALSE], brk |-> FALSE]
         ELSE [st |-> [st EXCEPT !.quit_all = TRUE], brk |-> TRUE]
    ELSE LET popped == IF key = KEY_U /\ st.saved # <<>>
                       THEN [st EXCEPT !.saved = Pop(st.saved)]
                       ELSE st
         IN  [st |-> popped, brk |-> (key = KEY_SPACE)]

\* mutant: the preview is drawn whenever a circle is being drawn
render_unguarded(st) ==
    [committed |-> st.saved,
     preview |-> IF st.drawing
                 THEN <<(<<st.center[1], st.center[2], st.preview_radius>>)>>
                 ELSE <<>>]

\* lines 71-79: the frame drawn at the top of a loop iteration: every saved
\* circle with its centre mark, and the preview circle with its centre mark
render(st) ==
    [committed |-> st.saved,
     preview |-> IF st.drawing /\ st.preview_radius > 0
                 THEN <<(<<st.center[1], st.center[2], st.preview_radius>>)>>
                 ELSE <<>>]

\* the window before any frame is shown
NoFrame == [committed |-> <<>>, preview |-> <<>>]

\* the closure variables take the values of st
SetSess(st) ==
    /\ saved' = st.saved
    /\ center' = st.center
    /\ drawing' = st.drawing
    /\ preview_radius' = st.preview_radius
    /\ quit_all' = st.quit_all

\* mutant: the store starts empty whatever was loaded
StartSession_fresh(init) ==
    /\ SetSess(SessInit(<<>>))
    /\ initial' = init
    /\ hist' = <<>>
    /\ ret' = <<>>
    /\ vis' = render(SessInit(<<>>))
    /\ pc' = "waitKey"

\* mutant: the draw state is shared by all sessions of a run
StartSession_leaky(init) ==
    /\ SetSess([Sess EXCEPT !.saved = init, !.quit_all = FALSE])
    /\ initial' = init
    /\ hist' = <<>>
    /\ ret' = <<>>
    /\ vis' = render([Sess EXCEPT !.saved = init, !.quit_all = FALSE])
    /\ pc' = "waitKey"

\* entry of annotate_image for a readable image, up to the first waitKey
StartSession(init) ==
    /\ SetSess(SessInit(init))
    /\ initial' = init
    /\ hist' = <<>>
    /\ ret' = <<>>
    /\ vis' = render(SessInit(init))
    /\ pc' = "waitKey"

\* HighGUI delivers one pointer event to the callback during waitKey
MouseEvent(maxEv, pts, kinds) ==
    /\ pc = "waitKey"
    /\ steps < maxEv
    /\ \E event \in kinds, p \in pts :
          /\ SetSess(on_mouse(Sess, event, p[1], p[2]))
          /\ hist' = Append(hist, [ev |-> <<event, p[1], p[2]>>, pre |-> Sess])
    /\ steps' = steps + 1
    /\ UNCHANGED <<pc, initial, ret, vis>>

\* waitKey returns; the rest of the loop body runs; on break the function
\* returns saved and quit_all, otherwise the next iteration draws its frame
KeyEvent(maxEv) ==
    /\ pc = "waitKey"
    /\ steps < maxEv
    /\ \E raw \in RawKeys :
          LET key == raw % KEY_MASK
              out == key_step(Sess, key)
          IN  /\ SetSess(out.st)
              /\ hist' = Append(hist, [ev |-> <<"KEY", key, 0>>, pre |-> Sess])
              /\ IF out.brk
                 THEN /\ pc' = "returned"
                      /\ ret' = <<out.st.saved, out.st.quit_all>>
                      /\ UNCHANGED vis
                 ELSE /\ vis' = render(out.st)
                      /\ UNCHANGED <<pc, ret>>
    /\ steps' = steps + 1
    /\ UNCHANGED initial

----------------------------------------------------------------------------
(* Text *)

DigitChars == <<"0", "1", "2", "3", "4", "5", "6", "7", "8", "9">>

Whitespace == {" ", "\n", "\t"}

RECURSIVE Concat(_)
Concat(ss) == IF ss = <<>> THEN <<>> ELSE Head(ss) \o Concat(Tail(ss))

\* f"{n}" for a non-negative integer
RECURSIVE NatToText(_)
NatToText(n) ==
    IF n < 10 THEN <<DigitChars[n + 1]>>
    ELSE NatToText(n \div 10) \o <<DigitChars[(n % 10) + 1]>>

\* f"{n}" for an integer
IntToText(n) == IF n < 0 THEN <<"-">> \o NatToText(-n) ELSE NatToText(n)

DigitValue(c) == CHOOSE d \in 0..9 : DigitChars[d + 1] = c

IsDigit(c) == \E d \in 0..9 : DigitChars[d + 1] = c

RECURSIVE DigitsValue(_, _)
DigitsValue(t, acc) ==
    IF t = <<>> THEN acc
    ELSE DigitsValue(Tail(t), acc * 10 + DigitValue(Head(t)))

\* int(tok) for a word without whitespace: an optional sign and at least one
\* decimal digit; anything else raises ValueError
py_int(tok) ==
    LET signed == tok # <<>> /\ Head(tok) \in {"-", "+"}
        body == IF signed THEN Tail(tok) ELSE tok
        ok == body # <<>> /\ \A i \in 1..Len(body) : IsDigit(body[i])
    IN  IF ~ok THEN [ok |-> FALSE, val |-> 0]
        ELSE [ok |-> TRUE,
              val |-> IF signed /\ Head(tok) = "-"
                      THEN -DigitsValue(body, 0) ELSE DigitsValue(body, 0)]

\* iteration over a text file: each line keeps its newline, the last line
\* may lack one
RECURSIVE file_lines(_, _)
file_lines(t, cur) ==
    IF t = <<>> THEN (IF cur = <<>> THEN <<>> ELSE <<cur>>)
    ELSE IF Head(t) = "\n" THEN <<Append(cur, "\n")>> \o file_lines(Tail(t), <<>>)
    ELSE file_lines(Tail(t), Append(cur, Head(t)))

\* line.replace(",", " ")
replace_commas(t) == [i \in 1..Len(t) |-> IF t[i] = "," THEN " " ELSE t[i]]

\* str.split(): the maximal runs of non-whitespace characters (this makes the
\* preceding strip() redundant)
RECURSIVE split(_, _)
split(t, cur) ==
    IF t = <<>> THEN (IF cur = <<>> THEN <<>> ELSE <<cur>>)
    ELSE IF Head(t) \in Whitespace
         THEN (IF cur = <<>> THEN <<>> ELSE <<cur>>) \o split(Tail(t), <<>>)
         ELSE split(Tail(t), Append(cur, Head(t)))

\* line.strip()
RECURSIVE lstrip(_)
lstrip(t) == IF t # <<>> /\ Head(t) \in Whitespace THEN lstrip(Tail(t)) ELSE t

RECURSIVE rstrip(_)
rstrip(t) ==
    IF t # <<>> /\ t[Len(t)] \in Whitespace
    THEN rstrip(SubSeq(t, 1, Len(t) - 1)) ELSE t

strip(t) == rstrip(lstrip(t))

----------------------------------------------------------------------------
(* read_csv and write_csv *)

\* a path of the file system: absent, or a file with its text
AbsentFile == [exists |-> FALSE, text |-> <<>>]
FileOf(t) == [exists |-> TRUE, text |-> t]

\* the loop of read_csv over the lines; raised: ValueError left the function
RECURSIVE read_lines(_, _)
read_lines(lines, circles) ==
    IF lines = <<>> THEN [raised |-> FALSE, circles |-> circles]
    ELSE LET parts == split(replace_commas(strip(Head(lines))), <<>>)
         IN  IF Len(parts) # 3 THEN read_lines(Tail(lines), circles)
             ELSE LET x == py_int(parts[1])
                      y == py_int(parts[2])
                      r == py_int(parts[3])
                  IN  IF ~(x.ok /\ y.ok /\ r.ok)
                      THEN [raised |-> TRUE, circles |-> <<>>]
                      ELSE read_lines(Tail(lines),
                                      Append(circles, <<x.val, y.val, r.val>>))

read_csv(file) ==
    IF ~file.exists THEN [raised |-> FALSE, circles |-> <<>>]
    ELSE read_lines(file_lines(file.text, <<>>), <<>>)

\* mutant: the lines are written without their newline
write_csv_nonewline(circles) ==
    FileOf(Concat([i \in 1..Len(circles) |->
        IntToText(circles[i][1]) \o <<",">> \o IntToText(circles[i][2])
            \o <<",">> \o IntToText(circles[i][3])]))

\* open(path, "w") truncates or creates the file; one line per circle
write_csv(circles) ==
    FileOf(Concat([i \in 1..Len(circles) |->
        IntToText(circles[i][1]) \o <<",">> \o IntToText(circles[i][2])
            \o <<",">> \o IntToText(circles[i][3]) \o <<"\n">>]))

----------------------------------------------------------------------------
(* read_csv and write_csv applied to bounded inputs *)

\* lines a CSV file may hold, each with what the file format makes of it:
\* valid when it consists of exactly three integers, and then its triple
SampleLines == <<
    [text |-> <<"1", "0", ",", "2", "0", ",", "3", "0">>,
     valid |-> TRUE, triple |-> <<10, 20, 30>>],
    [text |-> <<"1", "0", " ", "2", "0", " ", "3", "0">>,
     valid |-> TRUE, triple |-> <<10, 20, 30>>],
    [text |-> <<" ", "-", "4", ",", " ", "+", "5", " ", ",", "\t", "6", " ">>,
     valid |-> TRUE, triple |-> <<-4, 5, 6>>],
    [text |-> <<"1", "0", ",", "2", "0">>,
     valid |-> FALSE, triple |-> <<0, 0, 0>>],
    [text |-> <<"1", ",", "2", ",", "3", ",", "4">>,
     valid |-> FALSE, triple |-> <<0, 0, 0>>],
    [text |-> <<>>,
     valid |-> FALSE, triple |-> <<0, 0, 0>>],
    [text |-> <<"7", ",", "x", ",", "9">>,
     valid |-> FALSE, triple |-> <<0, 0, 0>>],
    [text |-> <<"1", ".", "5", ",", "2", ",", "3">>,
     valid |-> FALSE, triple |-> <<0, 0, 0>>],
    [text |-> <<"1", ",", "2", ",", "-", "3">>,
     valid |-> TRUE, triple |-> <<1, 2, -3>>]>>

\* the text of a file holding the given sample lines, each ended by a newline
LinesText(ls) == Concat([i \in 1..Len(ls) |-> SampleLines[ls[i]].text \o <<"\n">>])

\* the triples of the valid lines among the given sample lines, in order
RECURSIVE ValidTriples(_)
ValidTriples(ls) ==
    IF ls = <<>> THEN <<>>
    ELSE IF SampleLines[Head(ls)].valid
         THEN <<SampleLines[Head(ls)].triple>> \o ValidTriples(Tail(ls))
         ELSE ValidTriples(Tail(ls))

CsvInts == {-3, 0, 12}

CsvTriples == {<<x, y, r>> : x \in CsvInts, y \in CsvInts, r \in CsvInts}

\* lines of the files that may be at the path before write_csv is called
PriorLines == {<<1>>, <<7, 2>>}

CsvInit ==
    /\ pc = "csv_start"
    /\ csvOut = [raised |-> FALSE, circles |-> <<>>]
    /\ \/ /\ csvCircles \in SeqsUpTo(CsvTriples, MaxStore)
          /\ \/ csvLines = <<>> /\ csvFile = AbsentFile
             \/ csvLines \in PriorLines /\ csvFile = FileOf(LinesText(csvLines))
       \/ /\ csvCircles = <<>>
          /\ csvLines \in SeqsUpTo(1..Len(SampleLines), MaxLines)
          /\ \E final_newline \in BOOLEAN :
                csvFile = FileOf(IF final_newline \/ csvLines = <<>>
                                 THEN LinesText(csvLines)
                                 ELSE SubSeq(LinesText(csvLines), 1,
                                             Len(LinesText(csvLines)) - 1))

\* write_csv(path, csvCircles)
CsvWrite ==
    /\ pc = "csv_start"
    /\ csvFile' = write_csv(csvCircles)
    /\ pc' = "csv_written"
    /\ UNCHANGED <<csvCircles, csvLines, csvOut>>

\* read_csv(path) on the file as it was found
CsvRead ==
    /\ pc = "csv_start"
    /\ csvOut' = read_csv(csvFile)
    /\ pc' = "csv_read"
    /\ UNCHANGED <<csvCircles, csvLines, csvFile>>

\* read_csv(path) after write_csv(path, csvCircles)
CsvReadBack ==
    /\ pc = "csv_written"
    /\ csvOut' = read_csv(csvFile)
    /\ pc' = "csv_read_back"
    /\ UNCHANGED <<csvCircles, csvLines, csvFile>>

----------------------------------------------------------------------------
(* File names and the command line *)

\* the characters of file names, in code point order
NameChars == <<".", "B", "G", "J", "P", "a", "c", "d", "e", "g", "j", "n",
               "p", "s", "t", "v", "x", "z">>

Ord(c) == CHOOSE i \in 1..Len(NameChars) : NameChars[i] = c

\* str.lower() on the characters of file names
lower_char(c) ==
    CASE c = "B" -> "b" [] c = "G" -> "g" [] c = "J" -> "j" [] c = "P" -> "p"
      [] OTHER -> c

lower(t) == [i \in 1..Len(t) |-> lower_char(t[i])]

\* os.path.splitext: the extension starts at the last dot, unless only dots
\* precede it
splitext(name) ==
    LET dots == {i \in 1..Len(name) : name[i] = "."}
        last == CHOOSE i \in dots : \A j \in dots : j <= i
    IN  IF dots = {} \/ \A j \in 1..(last - 1) : name[j] = "."
        THEN <<name, <<>>>>
        ELSE <<SubSeq(name, 1, last - 1), SubSeq(name, last, Len(name))>>

\* a < b for str
RECURSIVE text_less(_, _)
text_less(a, b) ==
    IF b = <<>> THEN FALSE
    ELSE IF a = <<>> THEN TRUE
    ELSE IF Head(a) # Head(b) THEN Ord(Head(a)) < Ord(Head(b))
    ELSE text_less(Tail(a), Tail(b))

\* sorted(files)
RECURSIVE sorted(_)
sorted(S) ==
    IF S = {} THEN <<>>
    ELSE LET m == CHOOSE a \in S : \A b \in S \ {a} : text_less(a, b)
         IN  <<m>> \o sorted(S \ {m})

EXT_JPG == <<".", "j", "p", "g">>
EXT_JPEG == <<".", "j", "p", "e", "g">>
EXT_PNG == <<".", "p", "n", "g">>
EXT_CSV == <<".", "c", "s", "v">>

\* mutant: the names are returned in descending order
RECURSIVE sorted_desc(_)
sorted_desc(S) ==
    IF S = {} THEN <<>>
    ELSE LET m == CHOOSE a \in S : \A b \in S \ {a} : text_less(b, a)
         IN  <<m>> \o sorted_desc(S \ {m})

list_images_desc(names) ==
    sorted_desc({n \in names : splitext(lower(n))[2] \in {EXT_JPG, EXT_JPEG, EXT_PNG}})

list_images(names) ==
    sorted({n \in names : splitext(lower(n))[2] \in {EXT_JPG, EXT_JPEG, EXT_PNG}})

\* f"{stem}.csv"; every path of the run is in the one dataset folder
csv_path(name) == splitext(name)[1] \o EXT_CSV

OPT_H == <<"-", "h">>
OPT_HELP == <<"-", "-", "h", "e", "l", "p">>
OPT_DATASET == <<"-", "-", "d", "a", "t", "a", "s", "e", "t">>
OPT_SINGLE == <<"-", "-", "s", "i", "n", "g", "l", "e">>
DATASET_DIR_DEFAULT == <<".", ".", "/", "d", "a", "t", "a", "s", "e", "t", "3">>
DATA_DIR == <<"d">>

None == [set |-> FALSE, val |-> <<>>]
Some(t) == [set |-> TRUE, val |-> t]

\* truth value of an optional str: None and "" are false
Truthy(o) == o.set /\ o.val # <<>>

RECURSIVE parse_args_from(_, _, _, _, _)
parse_args_from(av, i, dataset, single, show_help) ==
    IF i > Len(av)
    THEN [dataset |-> dataset, single |-> single, show_help |-> show_help]
    ELSE IF av[i] \in {OPT_H, OPT_HELP}
         THEN parse_args_from(av, i + 1, dataset, single, TRUE)
    ELSE IF av[i] = OPT_DATASET /\ i + 1 <= Len(av)
         THEN parse_args_from(av, i + 2, av[i + 1], single, show_help)
    ELSE IF av[i] = OPT_SINGLE /\ i + 1 <= Len(av)
         THEN parse_args_from(av, i + 2, dataset, Some(av[i + 1]), show_help)
    ELSE parse_args_from(av, i + 1, dataset, single, TRUE)

parse_args(av) == parse_args_from(av, 1, DATASET_DIR_DEFAULT, None, FALSE)

----------------------------------------------------------------------------
(* main *)

N_B_JPG == <<"B", ".", "J", "P", "G">>
N_A_JPG == <<"a", ".", "j", "p", "g">>
N_A_PNG == <<"a", ".", "p", "n", "g">>
N_C_TXT == <<"c", ".", "t", "x", "t">>
N_Z_PNG == <<"z", ".", "p", "n", "g">>

\* names the dataset folder may hold
AllNames == {N_B_JPG, N_A_JPG, N_A_PNG, N_C_TXT}

CsvPaths == {csv_path(n) : n \in AllNames}

\* command lines
ArgvSamples == {
    <<>>,
    <<OPT_HELP>>,
    <<OPT_H>>,
    <<OPT_DATASET>>,
    <<OPT_SINGLE, N_A_JPG>>,
    <<OPT_DATASET, DATA_DIR>>,
    <<OPT_DATASET, DATA_DIR, OPT_SINGLE, N_A_JPG>>,
    <<OPT_DATASET, DATA_DIR, OPT_SINGLE, N_Z_PNG>>,
    <<OPT_DATASET, DATA_DIR, OPT_SINGLE, <<>> >>,
    <<OPT_DATASET, DATA_DIR, OPT_SINGLE>>}

\* pointer positions and event codes delivered during a run of main
MainPoints == {<<0, 0>>, <<MaxCoord, MaxCoord>>}

MainMouseEvents == {"LBUTTONDOWN", "MOUSEMOVE"}

\* CSV files the folder may hold when the program starts, by their lines:
\* two circles around a line of two words, a line with a word that is no
\* integer, a circle with a negative radius
PriorCsvLines == {<<1, 4, 3>>, <<7>>, <<9>>}

PriorCsv == {AbsentFile} \cup {FileOf(LinesText(ls)) : ls \in PriorCsvLines}

\* the circles the file format makes of such a file
FormatCircles(file) ==
    IF ~file.exists THEN <<>>
    ELSE ValidTriples(CHOOSE ls \in PriorCsvLines : FileOf(LinesText(ls)) = file)

Target == parse_args(argv).single

isdir(d) == dir_exists /\ d = DATA_DIR

\* lines 132-150: the checks before the first image
MainStart ==
    /\ pc = "main"
    /\ LET a == parse_args(argv)
           found == list_images(listing)
       IN  IF a.show_help
           THEN pc' = "exit_help" /\ UNCHANGED <<images, idx, img_name>>
           ELSE IF ~isdir(a.dataset)
           THEN pc' = "exit_no_folder" /\ UNCHANGED <<images, idx, img_name>>
           ELSE IF found = <<>>
           THEN /\ pc' = "exit_no_images"
                /\ images' = found
                /\ UNCHANGED <<idx, img_name>>
           ELSE IF Truthy(a.single)
                   /\ ~\E i \in 1..Len(found) : found[i] = a.single.val
           THEN /\ pc' = "exit_not_found"
                /\ images' = found
                /\ UNCHANGED <<idx, img_name>>
           ELSE /\ pc' = "annotate_and_save"
                /\ images' = found
                /\ IF Truthy(a.single)
                   THEN idx' = 0 /\ img_name' = a.single.val
                   ELSE idx' = 1 /\ img_name' = found[1]
    /\ UNCHANGED <<sessVars_but_pc, argv, dir_exists, listing, unreadable,
                   fs, fs0, trace, persisted, left>>

\* lines 153-160 and 42-51: annotate_and_save up to the first waitKey of
\* annotate_image, or to its return when the image cannot be decoded, or to
\* the ValueError of read_csv
BeginImage ==
    /\ pc = "annotate_and_save"
    /\ LET existing == read_csv(fs[csv_path(img_name)])
       IN  IF existing.raised
           THEN /\ pc' = "crashed"
                /\ trace' = Append(trace, <<"load", img_name, FALSE>>)
                /\ UNCHANGED <<saved, center, drawing, preview_radius,
                               quit_all, initial, ret, vis, hist>>
           ELSE IF img_name \in unreadable
           THEN /\ pc' = "returned"
                /\ ret' = <<<<>>, FALSE>>
                /\ trace' = trace \o <<(<<"load", img_name, FALSE>>),
                                       (<<"annotate", img_name, FALSE>>)>>
                /\ UNCHANGED <<saved, center, drawing, preview_radius,
                               quit_all, initial, vis, hist>>
           ELSE /\ StartSession(existing.circles)
                /\ trace' = trace \o <<(<<"load", img_name, FALSE>>),
                                       (<<"annotate", img_name, FALSE>>)>>
    /\ UNCHANGED <<steps, argv, dir_exists, listing, unreadable, fs, fs0,
                   images, idx, img_name, persisted, left>>

\* lines 161-175: annotate_image has returned; the CSV is written and the
\* driver goes on to the next image or ends
FinishImage ==
    /\ pc = "returned"
    /\ fs' = [fs EXCEPT ![csv_path(img_name)] = write_csv(ret[1])]
    /\ trace' = Append(trace, <<"write", img_name, ret[2]>>)
    /\ persisted' = [persisted EXCEPT ![csv_path(img_name)] = ret[1]]
    /\ left' = IF img_name \in unreadable THEN left
               ELSE [ended |-> TRUE, st |-> Sess]
    /\ IF Truthy(Target) \/ ret[2] \/ idx >= Len(images)
       THEN pc' = "done" /\ UNCHANGED <<idx, img_name>>
       ELSE /\ pc' = "annotate_and_save"
            /\ idx' = idx + 1
            /\ img_name' = images[idx + 1]
    /\ UNCHANGED <<sessVars_but_pc, argv, dir_exists, listing, unreadable,
                   fs0, images>>

----------------------------------------------------------------------------
(* Specifications *)

NoSession ==
    /\ saved = <<>>
    /\ center = <<-1, -1>>
    /\ drawing = FALSE
    /\ preview_radius = 0
    /\ quit_all = FALSE
    /\ initial = <<>>
    /\ ret = <<>>
    /\ vis = NoFrame
    /\ hist = <<>>
    /\ steps = 0

NoMain ==
    /\ argv = <<>>
    /\ dir_exists = FALSE
    /\ listing = {}
    /\ unreadable = {}
    /\ fs = [p \in CsvPaths |-> AbsentFile]
    /\ fs0 = fs
    /\ images = <<>>
    /\ idx = 0
    /\ img_name = <<>>
    /\ trace = <<>>
    /\ persisted = [p \in CsvPaths |-> <<>>]
    /\ left = [ended |-> FALSE, st |-> SessInit(<<>>)]

NoCsv ==
    /\ csvCircles = <<>>
    /\ csvFile = AbsentFile
    /\ csvLines = <<>>
    /\ csvOut = [raised |-> FALSE, circles |-> <<>>]

\* one call of annotate_image on a readable image, from its first waitKey
InitSession ==
    /\ pc = "waitKey"
    /\ initial \in InitialStores
    /\ saved = initial
    /\ center = <<-1, -1>>
    /\ drawing = FALSE
    /\ preview_radius = 0
    /\ quit_all = FALSE
    /\ ret = <<>>
    /\ vis = render(SessInit(initial))
    /\ hist = <<>>
    /\ steps = 0
    /\ NoMain
    /\ NoCsv

SessionMouse ==
    MouseEvent(MaxEvents, Points, MouseEvents) /\ UNCHANGED <<mainVars, csvVars>>

SessionKey == KeyEvent(MaxEvents) /\ UNCHANGED <<mainVars, csvVars>>

NextSession == SessionMouse \/ SessionKey

SpecSession == InitSession /\ [][NextSession]_vars

\* one run of the program
InitMain ==
    /\ pc = "main"
    /\ NoSession
    /\ NoCsv
    /\ argv \in ArgvSamples
    /\ dir_exists \in BOOLEAN
    /\ listing \in {l \in SUBSET AllNames : Cardinality(l) <= MaxFiles}
    /\ dir_exists \/ listing = {}
    /\ unreadable \in {{}} \cup {{n} : n \in listing}
    /\ fs \in [CsvPaths -> PriorCsv]
    /\ \A p \in CsvPaths :
          fs[p].exists => \E n \in listing : csv_path(n) = p
    /\ Cardinality(listing) + Cardinality({p \in CsvPaths : fs[p].exists})
          <= MaxFiles
    /\ fs0 = fs
    /\ images = <<>>
    /\ idx = 0
    /\ img_name = <<>>
    /\ trace = <<>>
    /\ persisted = [p \in CsvPaths |-> FormatCircles(fs[p])]
    /\ left = [ended |-> FALSE, st |-> SessInit(<<>>)]

MainMouse ==
    MouseEvent(MaxRunEvents, MainPoints, MainMouseEvents)
        /\ UNCHANGED <<mainVars, csvVars>>

MainKey == KeyEvent(MaxRunEvents) /\ UNCHANGED <<mainVars, csvVars>>

NextMain ==
    \/ MainStart /\ UNCHANGED csvVars
    \/ BeginImage /\ UNCHANGED csvVars
    \/ MainMouse
    \/ MainKey
    \/ FinishImage /\ UNCHANGED csvVars

Spec == InitMain /\ [][NextMain]_vars

\* read_csv and write_csv on bounded inputs
InitCsv == CsvInit /\ NoSession /\ NoMain

NextCsv ==
    \/ CsvWrite /\ UNCHANGED <<sessVars_but_pc, mainVars>>
    \/ CsvRead /\ UNCHANGED <<sessVars_but_pc, mainVars>>
    \/ CsvReadBack /\ UNCHANGED <<sessVars_but_pc, mainVars>>

SpecCsv == InitCsv /\ [][NextCsv]_vars

----------------------------------------------------------------------------
(* Reading the history of a session *)

Events == [i \in 1..Len(hist) |-> hist[i].ev]

\* the closure state right after the i-th event
After(i) == IF i < Len(hist) THEN hist[i + 1].pre ELSE Sess

IsPress(i) == hist[i].ev[1] = "LBUTTONDOWN"
IsMove(i) == hist[i].ev[1] = "MOUSEMOVE"
IsKey(i, k) == hist[i].ev[1] = "KEY" /\ hist[i].ev[2] = k

\* the i-th event is a second press, met while a circle was being drawn
IsCommit(i) == IsPress(i) /\ hist[i].pre.drawing

\* the i-th event ended the session
Ended(i) == i = Len(hist) /\ pc # "waitKey"

\* the integer nearest to the distance between two integer points
Nearest(c, p) ==
    LET n == (p[1] - c[1]) * (p[1] - c[1]) + (p[2] - c[2]) * (p[2] - c[2])
    IN  CHOOSE r \in 0..n :
           /\ 4 * n < (2 * r + 1) * (2 * r + 1)
           /\ r = 0 \/ (2 * r - 1) * (2 * r - 1) < 4 * n

\* the reference stack of the contract: a press while Idle starts a circle,
\* a press while Drawing commits it, ESC while Drawing discards it, u removes
\* the last circle of a non-empty stack, nothing else has an effect
RECURSIVE RefRun(_, _)
RefRun(evs, st) ==
    IF evs = <<>> THEN st.stack
    ELSE LET e == Head(evs)
             nxt ==
                IF e[1] = "LBUTTONDOWN"
                THEN IF st.active
                     THEN [stack |-> Append(st.stack,
                               <<st.at[1], st.at[2],
                                 Nearest(st.at, <<e[2], e[3]>>)>>),
                           active |-> FALSE, at |-> st.at]
                     ELSE [stack |-> st.stack, active |-> TRUE,
                           at |-> <<e[2], e[3]>>]
                ELSE IF e[1] = "KEY" /\ e[2] = KEY_ESC
                THEN [st EXCEPT !.active = FALSE]
                ELSE IF e[1] = "KEY" /\ e[2] = KEY_U /\ st.stack # <<>>
                THEN [st EXCEPT !.stack = SubSeq(st.stack, 1, Len(st.stack) - 1)]
                ELSE st
         IN  RefRun(Tail(evs), nxt)

RefStack == RefRun(Events, [stack |-> initial, active |-> FALSE, at |-> <<0, 0>>])

----------------------------------------------------------------------------
(* Claims *)

\* C1: at every point of a session on a readable image the store equals the
\* reference stack of the events delivered so far, and the list returned by
\* annotate_image is that stack
C1_ReturnsReferenceStack ==
    /\ pc = "waitKey" => saved = RefStack
    /\ pc = "returned" => ret[1] = RefStack

\* a session that committed a circle, undid one on a non-empty store and ended
C1_Witness ==
    /\ pc = "returned"
    /\ \E i \in 1..Len(hist) : IsCommit(i)
    /\ \E j \in 1..Len(hist) : IsKey(j, KEY_U) /\ hist[j].pre.saved # <<>>

\* C2: the returned quit_all is true exactly when the session was ended by ESC
\* met while not drawing; ESC met while drawing neither ends the session nor
\* sets quit_all; a session ended by space returns quit_all false
C2_QuitAllIffEscWhileIdle ==
    /\ pc = "returned" =>
          /\ ret[2] <=> (IsKey(Len(hist), KEY_ESC) /\ ~hist[Len(hist)].pre.drawing)
          /\ IsKey(Len(hist), KEY_SPACE) => ~ret[2]
    /\ \A i \in 1..Len(hist) :
          IsKey(i, KEY_ESC) /\ hist[i].pre.drawing =>
              ~After(i).quit_all /\ ~Ended(i)
    /\ pc = "waitKey" => ~quit_all

\* a session ended by ESC while idle after an earlier ESC cancelled a circle
C2_Witness ==
    /\ pc = "returned"
    /\ ret[2]
    /\ \E i \in 1..Len(hist) : IsKey(i, KEY_ESC) /\ hist[i].pre.drawing

\* C3 as stated: space met while drawing changes nothing and does not end the
\* session, so every ended session has the drawing flag false
C3_FinishWhileDrawingIsNoOp ==
    /\ \A i \in 1..Len(hist) :
          IsKey(i, KEY_SPACE) /\ hist[i].pre.drawing =>
              ~Ended(i) /\ After(i) = hist[i].pre
    /\ pc = "returned" => ~drawing

\* C3 amended: space met while drawing ends the session like space met while
\* idle: annotate_image returns the store as it was with quit_all false, and
\* the circle being drawn is not committed; a session that ends with the
\* drawing flag true was ended by space
C3_FinishWhileDrawingEnds ==
    /\ \A i \in 1..Len(hist) :
          IsKey(i, KEY_SPACE) /\ hist[i].pre.drawing =>
              /\ Ended(i)
              /\ After(i) = hist[i].pre
              /\ ret = <<hist[i].pre.saved, FALSE>>
    /\ pc = "returned" /\ drawing => IsKey(Len(hist), KEY_SPACE)

\* a session ended by space while a circle was being drawn on a non-empty store
C3_Witness ==
    /\ pc = "returned"
    /\ drawing
    /\ saved # <<>>
    /\ IsKey(Len(hist), KEY_SPACE)

\* C4: u right after a commit restores the store the commit met, and u on an
\* empty store leaves it empty and the session running
C4_UndoInvertsCommit ==
    /\ \A i \in 1..(Len(hist) - 1) :
          IsCommit(i) /\ IsKey(i + 1, KEY_U) =>
              After(i + 1).saved = hist[i].pre.saved
    /\ \A i \in 1..Len(hist) :
          IsKey(i, KEY_U) /\ hist[i].pre.saved = <<>> =>
              After(i).saved = <<>> /\ ~Ended(i)

\* a commit onto a non-empty store followed at once by u
C4_Witness ==
    \E i \in 1..(Len(hist) - 1) :
        /\ IsCommit(i)
        /\ IsKey(i + 1, KEY_U)
        /\ hist[i].pre.saved # <<>>

\* the press that started the circle committed by the i-th event
StartOf(i) ==
    CHOOSE j \in 1..(i - 1) :
        /\ IsPress(j) /\ ~hist[j].pre.drawing
        /\ \A k \in (j + 1)..(i - 1) : ~(IsPress(k) /\ ~hist[k].pre.drawing)

\* C10: a commit appends exactly the circle whose centre is the position of
\* the press that started it and whose radius is the integer nearest to the
\* distance from that centre to the position of the committing press
C10_CommitAppendsRoundedCircle ==
    \A i \in 1..Len(hist) :
        IsCommit(i) =>
            LET c == <<hist[StartOf(i)].ev[2], hist[StartOf(i)].ev[3]>>
                p == <<hist[i].ev[2], hist[i].ev[3]>>
            IN  After(i).saved =
                    Append(hist[i].pre.saved, <<c[1], c[2], Nearest(c, p)>>)

\* a commit whose radius is rounded up and differs from the radius previewed
\* by the last pointer move
C10_Witness ==
    \E i \in 2..Len(hist) :
        /\ IsCommit(i)
        /\ IsMove(i - 1)
        /\ hist[i].pre.preview_radius > 0
        /\ After(i).saved[Len(After(i).saved)][3] > hist[i].pre.preview_radius
        /\ LET r == After(i).saved[Len(After(i).saved)][3]
               c == hist[i].pre.center
           IN  r * r > (hist[i].ev[2] - c[1]) * (hist[i].ev[2] - c[1])
                       + (hist[i].ev[3] - c[2]) * (hist[i].ev[3] - c[2])

----------------------------------------------------------------------------
(* Reading the history of a run of main *)

\* the names the file format of the folder makes images
ImageNames == {N_B_JPG, N_A_JPG, N_A_PNG}

Discovered == listing \cap ImageNames

\* the names loaded so far, in order
Visited == LET loads == SelectSeq(trace, LAMBDA e : e[1] = "load")
           IN  [i \in 1..Len(loads) |-> loads[i][2]]

\* the run is between two images or over
BetweenImages == pc \in {"annotate_and_save", "done"}

\* the folder-mode contract of the driver
FolderVisit ==
    \* the run is never cut short by an error
    /\ pc # "crashed"
    \* images are visited in ascending order of name, none skipped
    /\ \A i \in 1..Len(Visited) :
          /\ Visited[i] \in Discovered
          /\ \A j \in 1..(i - 1) : text_less(Visited[j], Visited[i])
          /\ \A n \in Discovered :
                text_less(n, Visited[i]) => \E j \in 1..(i - 1) : Visited[j] = n
    \* each visit is a load, a session and a write of the same image
    /\ \A i \in 1..Len(trace) :
          /\ trace[i][1] = "load" /\ i < Len(trace) =>
                trace[i + 1] = <<"annotate", trace[i][2], FALSE>>
          /\ trace[i][1] = "annotate" /\ i < Len(trace) =>
                trace[i + 1][1] = "write" /\ trace[i + 1][2] = trace[i][2]
          /\ trace[i][1] = "write" /\ i < Len(trace) =>
                trace[i + 1][1] = "load" /\ ~trace[i][3]
    /\ BetweenImages /\ trace # <<>> =>
          /\ trace[Len(trace)][1] = "write"
          /\ fs[csv_path(trace[Len(trace)][2])].exists
    \* quit_all stops the run after the write; otherwise every image is visited
    /\ trace # <<>> /\ trace[Len(trace)][1] = "write" /\ trace[Len(trace)][3] =>
          pc = "done"
    /\ pc = "done" /\ ~trace[Len(trace)][3] =>
          \A n \in Discovered : \E i \in 1..Len(Visited) : Visited[i] = n

\* C5: in folder mode the images are visited in lexicographic order, each
\* visit loads, runs one session and writes that image's CSV, and a session
\* returning quit_all ends the run right after its write
C5_FolderVisitsInOrder == ~Target.set => FolderVisit

\* the same contract for runs that start from CSV files read_csv can read
C5_HoldsWhenCsvReadable ==
    (~Target.set /\ \A p \in CsvPaths : ~read_csv(fs0[p]).raised) => FolderVisit

\* C6: an image that cannot be decoded is never written, and a CSV that only
\* undecodable images share is as it was when the program started
C6_UnreadableImageNotWritten ==
    /\ \A i \in 1..Len(trace) :
          trace[i][1] = "write" => trace[i][2] \notin unreadable
    /\ \A p \in CsvPaths :
          (\A n \in Discovered : csv_path(n) = p => n \in unreadable) =>
              fs[p] = fs0[p]

\* C7: read_csv never raises, and returns the triples of the valid lines of
\* the file in file order
C7_ReaderSkipsMalformedLines ==
    pc = "csv_read" =>
        ~csvOut.raised /\ csvOut.circles = ValidTriples(csvLines)

\* the same for files whose lines are valid or have the wrong number of words
C7_HoldsForWrongArity ==
    (pc = "csv_read"
       /\ \A i \in 1..Len(csvLines) :
             SampleLines[csvLines[i]].valid
             \/ Len(split(replace_commas(SampleLines[csvLines[i]].text), <<>>)) # 3)
    => ~csvOut.raised /\ csvOut.circles = ValidTriples(csvLines)

\* C8: read_csv after write_csv returns the list written, and the file
\* written for the empty list exists and is empty
C8_WriteThenReadRoundTrip ==
    /\ pc \in {"csv_written", "csv_read_back"} =>
          csvFile.exists /\ (csvCircles = <<>> => csvFile.text = <<>>)
    /\ pc = "csv_read_back" =>
          csvOut = [raised |-> FALSE, circles |-> csvCircles]

\* a list of two circles with a negative and a two-digit number, written over
\* an existing file and read back
C8_Witness ==
    /\ pc = "csv_read_back"
    /\ Len(csvCircles) >= 2
    /\ csvCircles[1][1] < 0
    /\ csvCircles[2][3] > 9
    /\ csvLines # <<>>

\* the three configuration errors
ConfigError ==
    LET a == parse_args(argv)
    IN  \/ ~isdir(a.dataset)
        \/ Discovered = {}
        \/ a.single.set /\ a.single.val \notin Discovered

\* no session has been started and no CSV file created or overwritten
NothingDone ==
    /\ \A i \in 1..Len(trace) : trace[i][1] \notin {"annotate", "write"}
    /\ fs = fs0
    /\ pc # "waitKey"

\* C9: with a missing folder, a folder without images, or --single naming
\* something that is not a discovered image, nothing is done
C9_ConfigErrorsMutateNothing == ConfigError => NothingDone

\* the same when the name given to --single is not the empty string
C9_HoldsForNonEmptyName ==
    (ConfigError /\ ~(Target.set /\ Target.val = <<>>)) => NothingDone

----------------------------------------------------------------------------
(* Claims on the frame of the session *)

\* the circles committed by the events of the session so far
Committed ==
    {After(i).saved[Len(After(i).saved)] : i \in {j \in 1..Len(hist) : IsCommit(j)}}

Elements(sq) == {sq[i] : i \in 1..Len(sq)}

\* C13: ESC met while drawing leaves the store as it was and ends the
\* drawing; the store only ever holds circles it was loaded with and circles
\* committed by a second press; after a commit the drawing flag is false
C13_NoPartialCommit ==
    /\ \A i \in 1..Len(hist) :
          /\ IsKey(i, KEY_ESC) /\ hist[i].pre.drawing =>
                After(i).saved = hist[i].pre.saved /\ ~After(i).drawing
          /\ IsCommit(i) => ~After(i).drawing
    /\ Elements(saved) \subseteq Elements(initial) \cup Committed
    /\ ret # <<>> => Elements(ret[1]) \subseteq Elements(initial) \cup Committed

\* a circle with a previewed radius was cancelled by ESC after a commit
C13_Witness ==
    \E i \in 1..Len(hist) :
        /\ IsKey(i, KEY_ESC)
        /\ hist[i].pre.drawing
        /\ hist[i].pre.preview_radius > 0
        /\ hist[i].pre.saved # <<>>

\* C14: a pointer move met while idle changes nothing, and one met while
\* drawing changes only the previewed radius, which becomes the integer
\* nearest to the distance from the centre to the pointer
C14_MoveOnlySetsPreview ==
    \A i \in 1..Len(hist) :
        IsMove(i) =>
            IF hist[i].pre.drawing
            THEN After(i) =
                    [hist[i].pre EXCEPT !.preview_radius =
                        Nearest(hist[i].pre.center, <<hist[i].ev[2], hist[i].ev[3]>>)]
            ELSE After(i) = hist[i].pre

\* a move met while idle and a move that changed the previewed radius
C14_Witness ==
    /\ \E i \in 1..Len(hist) : IsMove(i) /\ ~hist[i].pre.drawing
    /\ \E i \in 1..Len(hist) :
          /\ IsMove(i)
          /\ hist[i].pre.drawing
          /\ After(i).preview_radius # hist[i].pre.preview_radius

\* C17: u met while drawing removes the last circle of a non-empty store and
\* leaves the circle being drawn as it was, so that a press that follows
\* commits a circle at its centre
C17_UndoWhileDrawingKeepsDraft ==
    \A i \in 1..Len(hist) :
        IsKey(i, KEY_U) /\ hist[i].pre.drawing =>
            /\ After(i).saved =
                  IF hist[i].pre.saved = <<>> THEN <<>>
                  ELSE SubSeq(hist[i].pre.saved, 1, Len(hist[i].pre.saved) - 1)
            /\ After(i).drawing
            /\ After(i).center = hist[i].pre.center
            /\ After(i).preview_radius = hist[i].pre.preview_radius
            /\ ~Ended(i)
            /\ i < Len(hist) /\ IsPress(i + 1) =>
                  /\ Len(After(i + 1).saved) = Len(After(i).saved) + 1
                  /\ LET c == After(i + 1).saved[Len(After(i + 1).saved)]
                     IN  <<c[1], c[2]>> = hist[i].pre.center

\* u met while drawing on a non-empty store, followed by the committing press
C17_Witness ==
    \E i \in 1..(Len(hist) - 1) :
        /\ IsKey(i, KEY_U)
        /\ hist[i].pre.drawing
        /\ hist[i].pre.saved # <<>>
        /\ IsPress(i + 1)

\* the closure state the frame on show was drawn from: the state after the
\* last key event, or the state the session started in
AtRender ==
    LET keys == {i \in 1..Len(hist) : hist[i].ev[1] = "KEY"}
    IN  IF keys = {}
        THEN (IF hist = <<>> THEN Sess ELSE hist[1].pre)
        ELSE After(CHOOSE k \in keys : \A j \in keys : j <= k)

\* C16 as stated: the frame shows every committed circle, and the preview
\* exactly when a circle is being drawn, whatever its radius
C16_PreviewIffDrawing ==
    pc = "waitKey" =>
        /\ vis.committed = AtRender.saved
        /\ vis.preview # <<>> <=> AtRender.drawing

\* C16 amended: the frame shows every committed circle, and the preview
\* exactly when a circle is being drawn and its previewed radius is positive
C16_PreviewIffDrawingPositive ==
    pc = "waitKey" =>
        /\ vis.committed = AtRender.saved
        /\ vis.preview =
              IF AtRender.drawing /\ AtRender.preview_radius > 0
              THEN <<(<<AtRender.center[1], AtRender.center[2],
                        AtRender.preview_radius>>)>>
              ELSE <<>>

\* a frame with committed circles and the preview
C16_Witness ==
    /\ pc = "waitKey"
    /\ vis.committed # <<>>
    /\ vis.preview # <<>>
    /\ AtRender.drawing

----------------------------------------------------------------------------
(* Claims on the sessions of a run of main *)

\* the image has been saved in this run
Written(n) == \E i \in 1..Len(trace) : trace[i][1] = "write" /\ trace[i][2] = n

\* C11: until an image is saved itself, its annotation file is as it was when
\* the program started, and its session starts from the circles of that file
C11_OwnAnnotationFile ==
    \A m \in Discovered :
        ~Written(m) =>
            /\ fs[csv_path(m)] = fs0[csv_path(m)]
            /\ pc = "waitKey" /\ img_name = m =>
                  initial = FormatCircles(fs0[csv_path(m)])

\* the same for folders that do not hold both a.jpg and a.png
C11_HoldsForDistinctStems ==
    ~(N_A_JPG \in listing /\ N_A_PNG \in listing) => C11_OwnAnnotationFile

\* C12: a session starts idle with the circles of the image's CSV in file
\* order; u as the first event removes the last of them; a session ended by
\* space as its only event returns them and they are written back
C12_SessionStartsFromCsv ==
    /\ pc = "waitKey" =>
          /\ initial = persisted[csv_path(img_name)]
          /\ hist = <<>> => saved = initial /\ ~drawing
    /\ hist # <<>> /\ IsKey(1, KEY_U) =>
          /\ hist[1].pre.saved = initial
          /\ After(1).saved = IF initial = <<>> THEN <<>>
                              ELSE SubSeq(initial, 1, Len(initial) - 1)
    /\ Len(hist) = 1 /\ IsKey(1, KEY_SPACE) =>
          /\ pc = "returned" /\ img_name \notin unreadable =>
                ret = <<initial, FALSE>>
          /\ \A n \in Discovered \ unreadable :
                (pc \in {"annotate_and_save", "done"}
                   /\ trace[Len(trace)] = <<"write", n, FALSE>>) =>
                    /\ persisted[csv_path(n)] = initial
                    /\ fs[csv_path(n)] = write_csv(initial)

\* a session started from a CSV of two circles, with u as its first event
C12_Witness ==
    /\ pc = "waitKey"
    /\ Len(initial) = 2
    /\ fs0[csv_path(img_name)].exists
    /\ Len(hist) = 1
    /\ IsKey(1, KEY_U)
    /\ saved = <<initial[1]>>

\* C15: the previewed radius and every radius in the store of a session are
\* >= 0, and so is every radius saved to a CSV
C15_RadiiNonNegative ==
    /\ pc \in {"waitKey", "returned"} =>
          /\ preview_radius >= 0
          /\ \A i \in 1..Len(saved) : saved[i][3] >= 0
    /\ \A n \in Discovered :
          Written(n) =>
              \A i \in 1..Len(persisted[csv_path(n)]) :
                  persisted[csv_path(n)][i][3] >= 0

\* the same for runs that start without a CSV line of negative radius
C15_HoldsWithoutNegativeCsv ==
    (\A p \in CsvPaths : fs0[p] # FileOf(LinesText(<<9>>))) => C15_RadiiNonNegative

\* C18: every session of a run starts idle, without centre and with previewed
\* radius 0; its first press sets the centre and commits nothing
C18_NoDrawStateLeak ==
    /\ pc = "waitKey" /\ hist = <<>> =>
          /\ ~drawing
          /\ center = <<-1, -1>>
          /\ preview_radius = 0
          /\ ~quit_all
    /\ \A j \in 1..Len(hist) :
          IsPress(j) /\ (\A k \in 1..(j - 1) : ~IsPress(k)) =>
              /\ ~hist[j].pre.drawing
              /\ After(j).saved = hist[j].pre.saved
              /\ After(j).drawing
              /\ After(j).center = <<hist[j].ev[2], hist[j].ev[3]>>
              /\ After(j).preview_radius = 0

\* the first press of a session that follows one left while drawing
C18_Witness ==
    /\ left.ended
    /\ left.st.drawing
    /\ pc = "waitKey"
    /\ hist # <<>>
    /\ IsPress(1)

====
